---- MODULE Spec2Model ----
(***************************************************************************)
(* Stripe -> WooCommerce webhook bridge (src/server.js).                   *)
(*                                                                         *)
(* Every inbound webhook request is one asynchronous task.  A task runs    *)
(* synchronously between two awaits, so every action below is one external *)
(* call (to the Stripe API or to the WooCommerce REST API) together with   *)
(* the synchronous code that follows it up to the next await or up to the  *)
(* response.  The two external systems are the only shared state.          *)
(***************************************************************************)
EXTENDS Integers, Sequences, FiniteSets, TLC

\* ------------------------------------------------------------------ bounds
MaxItems == 2        \* longest line item list of a checkout session
MaxQty   == 2        \* largest quantity of a line item
NumTasks == 2        \* webhook requests in the concurrent specification
MaxSubs  == 2        \* longest subscription list of the locator specification
MaxDate  == 2        \* latest creation date of a subscription

None == "none"       \* null / undefined / absent field

Tasks == 1..NumTasks

\* -------------------------------------------------------- static tables
\* productMapping: price id -> product
productMapping ==
  [p \in {"price_123456789", "price_987654321"} |->
     IF p = "price_123456789"
       THEN [productId |-> 123, isSubscription |-> TRUE]
       ELSE [productId |-> 456, isSubscription |-> FALSE]]

\* statusMap inside updateWooSubscriptionStatus: Stripe status -> Woo status
statusMap ==
  [s \in {"active", "past_due", "unpaid", "canceled", "incomplete",
          "incomplete_expired", "trialing", "paused"} |->
     CASE s = "active"             -> "active"
       [] s = "past_due"           -> "on-hold"
       [] s = "unpaid"             -> "on-hold"
       [] s = "canceled"           -> "cancelled"
       [] s = "incomplete"         -> "pending"
       [] s = "incomplete_expired" -> "cancelled"
       [] s = "trialing"           -> "active"
       [] s = "paused"             -> "on-hold"]

\* wooStatus, but an unrecognized status is passed through unchanged
wooStatusPassThrough(stripeStatus) ==
  IF stripeStatus \in DOMAIN statusMap THEN statusMap[stripeStatus] ELSE stripeStatus

\* const wooStatus = statusMap[stripeStatus] || 'on-hold'
wooStatus(stripeStatus) ==
  IF stripeStatus \in DOMAIN statusMap THEN statusMap[stripeStatus] ELSE "on-hold"

\* ------------------------------------------------------------ the inputs
Prices == {"price_123456789", "price_987654321", "price_unknown"}
Emails == {"a@example.com", "b@example.com"}

LineItem == [price : Prices, quantity : 1..MaxQty]

RECURSIVE SeqsUpTo(_, _)
SeqsUpTo(S, n) ==
  IF n = 0 THEN {<< >>}
  ELSE LET shorter == SeqsUpTo(S, n - 1)
       IN  shorter \cup {Append(s, x) : s \in {q \in shorter : Len(q) = n - 1}, x \in S}

ItemLists == SeqsUpTo(LineItem, MaxItems) \ {<< >>}

\* the e-mail the processor holds for a processor customer id
StripeCustomerEmail ==
  [c \in {"cus_1", "cus_2"} |-> IF c = "cus_1" THEN "a@example.com" ELSE "b@example.com"]

StripeStatuses == DOMAIN statusMap \cup {"bogus", "cancelled"}

Ev(type, id, email, items, subscription, customer, status) ==
  [type |-> type, id |-> id, email |-> email, items |-> items,
   subscription |-> subscription, customer |-> customer, status |-> status]

CheckoutEvents ==
  {Ev("checkout.session.completed", "cs_1", e, li, s, None, None) :
      e \in Emails \cup {None}, li \in ItemLists, s \in {None, "sub_1"}}

InvoiceEvents ==
  {Ev("invoice.paid", "in_1", None, << >>, "sub_1", c, None) :
      c \in DOMAIN StripeCustomerEmail}

UpdatedEvents ==
  {Ev("customer.subscription.updated", "sub_1", None, << >>, None, c, s) :
      c \in DOMAIN StripeCustomerEmail, s \in StripeStatuses}

DeletedEvents ==
  {Ev("customer.subscription.deleted", "sub_1", None, << >>, None, c, "canceled") :
      c \in DOMAIN StripeCustomerEmail}

OtherEvents ==
  {Ev("charge.succeeded", "ch_1", None, << >>, None, None, None)}

Events == CheckoutEvents \cup InvoiceEvents \cup UpdatedEvents
            \cup DeletedEvents \cup OtherEvents

NoEvent == Ev(None, None, None, << >>, None, None, None)

\* ----------------------------------------------------- back-office records
Meta(key, value) == [key |-> key, value |-> value]

Order(id, customerId_, status, lineItems, meta) ==
  [id |-> id, customer_id |-> customerId_, set_paid |-> TRUE, status |-> status,
   line_items |-> lineItems, meta_data |-> meta]

NoOrder ==
  [id |-> 0, customer_id |-> 0, set_paid |-> FALSE, status |-> None,
   line_items |-> << >>, meta_data |-> << >>]

Sub(id, status, tag, created) ==
  [id |-> id, customer_id |-> 1, status |-> status, stripe_subscription_id |-> tag,
   date_created |-> created,
   line_items |-> <<[product_id |-> 123, quantity |-> 2]>>]

\* the subscription lists the back-office system may hold for customer 1
SubscriptionConfigs ==
  { << >>,
    << Sub(1, "on-hold", "sub_1", 1) >>,
    << Sub(1, "on-hold", None, 1) >>,
    << Sub(1, "active", None, 1), Sub(2, "active", None, 2) >>,
    << Sub(1, "active", "sub_9", 2), Sub(2, "pending", "sub_1", 1) >> }

VARIABLES
  customers,      \* back-office customers, in the order the API lists them
  orders,         \* back-office orders; orders[i].id = i
  subscriptions,  \* back-office subscriptions; subscriptions[i].id = i
  pc,             \* per task: the await the task is suspended at
  event,          \* per task: the event of the request
  sigOK,          \* per task: did constructEvent accept the signature
  customerId,     \* per task: customer.id (0: not resolved)
  wooSub,         \* per task: wooSubscription.id (0: null)
  response,       \* per task: response.data of the order create
  ret,            \* per task: the value createWooOrder returned
  err,            \* per task: message of the error thrown to the dispatcher
  responses,      \* per task: the HTTP responses sent, in order
  calls           \* per task: the external calls issued, in order

vars == <<customers, orders, subscriptions, pc, event, sigOK, customerId, wooSub,
          response, ret, err, responses, calls>>

backoffice == <<customers, orders, subscriptions>>
locals     == <<customerId, wooSub, response, ret>>

Init ==
  /\ customers \in { << >>, << [id |-> 1, email |-> "a@example.com"] >> }
  /\ orders = << >>
  /\ subscriptions \in (IF customers = << >> THEN { << >> } ELSE SubscriptionConfigs)
  /\ pc = [t \in Tasks |-> "idle"]
  /\ event = [t \in Tasks |-> NoEvent]
  /\ sigOK = [t \in Tasks |-> FALSE]
  /\ customerId = [t \in Tasks |-> 0]
  /\ wooSub = [t \in Tasks |-> 0]
  /\ response = [t \in Tasks |-> NoOrder]
  /\ ret = [t \in Tasks |-> NoOrder]
  /\ err = [t \in Tasks |-> None]
  /\ responses = [t \in Tasks |-> << >>]
  /\ calls = [t \in Tasks |-> << >>]

\* ------------------------------------------------- control of one request
\* respond, but a processing error is acknowledged like a success
respondAlwaysAck(verified, error) ==
  IF ~verified THEN 400 ELSE 200

\* the status of the response the route handler sends
respond(verified, error) ==
  IF ~verified THEN 400 ELSE IF error # None THEN 500 ELSE 200

\* an error thrown inside a handler: every handler logs and rethrows it, and
\* the route handler's catch answers the request
Throw(t, msg) ==
  /\ err' = [err EXCEPT ![t] = msg]
  /\ responses' = [responses EXCEPT ![t] = Append(@, respond(TRUE, msg))]
  /\ pc' = [pc EXCEPT ![t] = "done"]

\* the handler returned: the route handler acknowledges the request
Return(t) ==
  /\ err' = err
  /\ responses' = [responses EXCEPT ![t] = Append(@, respond(TRUE, None))]
  /\ pc' = [pc EXCEPT ![t] = "done"]

\* the task suspends at its next await
Await(t, label) ==
  /\ pc' = [pc EXCEPT ![t] = label]
  /\ UNCHANGED <<err, responses>>

\* the record of one external call
Call(op, ok, target, value) ==
  [op |-> op, ok |-> ok, target |-> target, value |-> value]

Issue(t, c) == calls' = [calls EXCEPT ![t] = Append(@, c)]

\* the await a handler first suspends at
FirstAwait(type) ==
  CASE type = "checkout.session.completed"    -> "listLineItems"
    [] type = "invoice.paid"                  -> "retrieveSubscription"
    [] type = "customer.subscription.updated" -> "retrieveCustomer"
    [] type = "customer.subscription.deleted" -> "retrieveCustomer"
    [] OTHER                                  -> "done"

\* Webhook without the `return` in the signature catch: the switch runs
\* after the 400
WebhookDispatchUnverified(t, evs) ==
  /\ pc[t] = "idle"
  /\ \E ev \in evs, verified \in BOOLEAN :
       /\ event' = [event EXCEPT ![t] = ev]
       /\ sigOK' = [sigOK EXCEPT ![t] = verified]
       /\ err' = err
       /\ responses' = [responses EXCEPT ![t] =
             IF ~verified THEN Append(@, respond(FALSE, None))
             ELSE IF FirstAwait(ev.type) = "done" THEN Append(@, respond(TRUE, None))
             ELSE @]
       /\ pc' = [pc EXCEPT ![t] = FirstAwait(ev.type)]
  /\ UNCHANGED <<backoffice, locals, calls>>

\* Webhook, but the default case of the switch throws instead of logging
WebhookRejectUnknown(t, evs) ==
  /\ pc[t] = "idle"
  /\ \E ev \in evs, verified \in BOOLEAN :
       /\ event' = [event EXCEPT ![t] = ev]
       /\ sigOK' = [sigOK EXCEPT ![t] = verified]
       /\ IF ~verified
            THEN /\ responses' = [responses EXCEPT ![t] = Append(@, respond(FALSE, None))]
                 /\ pc' = [pc EXCEPT ![t] = "done"]
                 /\ err' = err
            ELSE IF FirstAwait(ev.type) = "done"
                   THEN Throw(t, "Unhandled event type")
                   ELSE Await(t, FirstAwait(ev.type))
  /\ UNCHANGED <<backoffice, locals, calls>>

\* app.post('/stripe-webhook'): constructEvent, then the switch on event.type
Webhook(t, evs) ==
  /\ pc[t] = "idle"
  /\ \E ev \in evs, verified \in BOOLEAN :
       /\ event' = [event EXCEPT ![t] = ev]
       /\ sigOK' = [sigOK EXCEPT ![t] = verified]
       /\ IF ~verified
            THEN /\ responses' = [responses EXCEPT ![t] = Append(@, respond(FALSE, None))]
                 /\ pc' = [pc EXCEPT ![t] = "done"]
                 /\ err' = err
            ELSE IF FirstAwait(ev.type) = "done"
                   THEN Return(t)
                   ELSE Await(t, FirstAwait(ev.type))
  /\ UNCHANGED <<backoffice, locals, calls>>

\* ------------------------------------------------------ checkout completed
\* wooLineItems, but only the first line item is checked against the table
wooLineItemsFirstOnly(lineItems) ==
  [err   |-> lineItems[1].price \notin DOMAIN productMapping,
   items |-> [i \in 1..Len(lineItems) |->
                IF lineItems[i].price \in DOMAIN productMapping
                  THEN [product_id |-> productMapping[lineItems[i].price].productId,
                        quantity   |-> lineItems[i].quantity]
                  ELSE [product_id |-> 0, quantity |-> 0]]]

\* wooLineItems, but the quantity of the line item is not copied
wooLineItemsUnitQuantity(lineItems) ==
  [err   |-> \E i \in 1..Len(lineItems) : lineItems[i].price \notin DOMAIN productMapping,
   items |-> [i \in 1..Len(lineItems) |->
                IF lineItems[i].price \in DOMAIN productMapping
                  THEN [product_id |-> productMapping[lineItems[i].price].productId,
                        quantity   |-> 1]
                  ELSE [product_id |-> 0, quantity |-> 0]]]

\* createWooOrder up to its first await: the line items mapped through
\* productMapping inside Promise.all (rejects if any item is unmapped)
wooLineItems(lineItems) ==
  [err   |-> \E i \in 1..Len(lineItems) : lineItems[i].price \notin DOMAIN productMapping,
   items |-> [i \in 1..Len(lineItems) |->
                IF lineItems[i].price \in DOMAIN productMapping
                  THEN [product_id |-> productMapping[lineItems[i].price].productId,
                        quantity   |-> lineItems[i].quantity]
                  ELSE [product_id |-> 0, quantity |-> 0]]]

\* hasSubscription, but only the first line item is looked at
hasSubscriptionFirstOnly(lineItems) ==
  /\ lineItems[1].price \in DOMAIN productMapping
  /\ productMapping[lineItems[1].price].isSubscription

hasSubscription(lineItems) ==
  \E i \in 1..Len(lineItems) :
     /\ lineItems[i].price \in DOMAIN productMapping
     /\ productMapping[lineItems[i].price].isSubscription

\* the call of createWooOrder, after the customer is resolved
EnterCreateWooOrder(t) ==
  IF wooLineItems(event[t].items).err
    THEN Throw(t, "No product mapping found for Stripe price ID")
    ELSE Await(t, "postOrder")

\* listLineItems, but the line items are resolved through productMapping
\* before the customer is looked up
listLineItemsMapFirst(t) ==
  /\ pc[t] = "listLineItems"
  /\ \E ok \in BOOLEAN :
       /\ Issue(t, Call("stripe.listLineItems", ok, 0, event[t].id))
       /\ IF ~ok THEN Throw(t, "stripe error")
          ELSE IF wooLineItems(event[t].items).err
            THEN Throw(t, "No product mapping found for Stripe price ID")
          ELSE IF event[t].email = None THEN Throw(t, "Customer email is required")
          ELSE Await(t, "getCustomers")
  /\ UNCHANGED <<backoffice, locals, event, sigOK>>

\* await stripe.checkout.sessions.listLineItems, then the e-mail check of
\* getOrCreateWooCustomer
listLineItems(t) ==
  /\ pc[t] = "listLineItems"
  /\ \E ok \in BOOLEAN :
       /\ Issue(t, Call("stripe.listLineItems", ok, 0, event[t].id))
       /\ IF ~ok THEN Throw(t, "stripe error")
          ELSE IF event[t].email = None THEN Throw(t, "Customer email is required")
          ELSE Await(t, "getCustomers")
  /\ UNCHANGED <<backoffice, locals, event, sigOK>>

\* await WooCommerce.get('customers', {email})
getCustomers(t) ==
  /\ pc[t] = "getCustomers"
  /\ \E ok \in BOOLEAN :
       /\ Issue(t, Call("GET customers", ok, 0, event[t].email))
       /\ IF ~ok
            THEN Throw(t, "woocommerce error") /\ UNCHANGED customerId
            ELSE LET data == SelectSeq(customers, LAMBDA c : c.email = event[t].email)
                 IN  IF Len(data) > 0
                       THEN /\ customerId' = [customerId EXCEPT ![t] = data[1].id]
                            /\ EnterCreateWooOrder(t)
                       ELSE /\ Await(t, "postCustomers")
                            /\ UNCHANGED customerId
  /\ UNCHANGED <<backoffice, wooSub, response, ret, event, sigOK>>

\* await WooCommerce.post('customers', customerData)
postCustomers(t) ==
  /\ pc[t] = "postCustomers"
  /\ \E ok \in BOOLEAN :
       /\ Issue(t, Call("POST customers", ok, 0, event[t].email))
       /\ IF ~ok
            THEN Throw(t, "woocommerce error") /\ UNCHANGED <<customers, customerId>>
            ELSE /\ customers' = Append(customers,
                                  [id |-> Len(customers) + 1, email |-> event[t].email])
                 /\ customerId' = [customerId EXCEPT ![t] = Len(customers) + 1]
                 /\ EnterCreateWooOrder(t)
  /\ UNCHANGED <<orders, subscriptions, wooSub, response, ret, event, sigOK>>

getOrCreateWooCustomer(t) == getCustomers(t) \/ postCustomers(t)

\* postOrder, but a failed create is retried once
postOrderRetry(t) ==
  /\ pc[t] = "postOrder"
  /\ \E ok \in BOOLEAN :
       /\ Issue(t, Call("POST orders", ok, 0, event[t].id))
       /\ IF ~ok
            THEN /\ IF \E i \in 1..Len(calls[t]) : calls[t][i].op = "POST orders"
                      THEN Throw(t, "woocommerce error")
                      ELSE Await(t, "postOrder")
                 /\ UNCHANGED <<orders, response, ret>>
            ELSE LET data == Order(Len(orders) + 1, customerId[t], None,
                                   wooLineItems(event[t].items).items,
                                   << Meta("stripe_checkout_id", event[t].id) >>)
                 IN  /\ orders' = Append(orders, data)
                     /\ response' = [response EXCEPT ![t] = data]
                     /\ IF hasSubscription(event[t].items) /\ event[t].subscription # None
                          THEN Await(t, "putOrder") /\ UNCHANGED ret
                          ELSE Return(t) /\ ret' = [ret EXCEPT ![t] = data]
  /\ UNCHANGED <<customers, subscriptions, customerId, wooSub, event, sigOK>>

\* postOrder, but deduplicating on the checkout id: an order already tagged
\* with the session id is reused instead of created again
postOrderDedup(t) ==
  /\ pc[t] = "postOrder"
  /\ \E ok \in BOOLEAN :
       /\ Issue(t, Call("POST orders", ok, 0, event[t].id))
       /\ IF ~ok
            THEN Throw(t, "woocommerce error") /\ UNCHANGED <<orders, response, ret>>
            ELSE LET same == SelectSeq(orders, LAMBDA o :
                               \E i \in 1..Len(o.meta_data) :
                                  o.meta_data[i] = Meta("stripe_checkout_id", event[t].id))
                     data == IF Len(same) > 0 THEN same[1]
                             ELSE Order(Len(orders) + 1, customerId[t], None,
                                        wooLineItems(event[t].items).items,
                                        << Meta("stripe_checkout_id", event[t].id) >>)
                 IN  /\ orders' = IF Len(same) > 0 THEN orders ELSE Append(orders, data)
                     /\ response' = [response EXCEPT ![t] = data]
                     /\ IF hasSubscription(event[t].items) /\ event[t].subscription # None
                          THEN Await(t, "putOrder") /\ UNCHANGED ret
                          ELSE Return(t) /\ ret' = [ret EXCEPT ![t] = data]
  /\ UNCHANGED <<customers, subscriptions, customerId, wooSub, event, sigOK>>

\* postOrder, but the subscription tag is already part of the created order
postOrderTagged(t) ==
  /\ pc[t] = "postOrder"
  /\ \E ok \in BOOLEAN :
       /\ Issue(t, Call("POST orders", ok, 0, event[t].id))
       /\ IF ~ok
            THEN Throw(t, "woocommerce error") /\ UNCHANGED <<orders, response, ret>>
            ELSE LET amend == hasSubscription(event[t].items) /\ event[t].subscription # None
                     data  == Order(Len(orders) + 1, customerId[t], None,
                                    wooLineItems(event[t].items).items,
                                    IF amend
                                      THEN << Meta("stripe_checkout_id", event[t].id),
                                              Meta("stripe_subscription_id", event[t].subscription) >>
                                      ELSE << Meta("stripe_checkout_id", event[t].id) >>)
                 IN  /\ orders' = Append(orders, data)
                     /\ response' = [response EXCEPT ![t] = data]
                     /\ IF amend
                          THEN Await(t, "putOrder") /\ UNCHANGED ret
                          ELSE Return(t) /\ ret' = [ret EXCEPT ![t] = data]
  /\ UNCHANGED <<customers, subscriptions, customerId, wooSub, event, sigOK>>

\* await WooCommerce.post('orders', orderData)
postOrder(t) ==
  /\ pc[t] = "postOrder"
  /\ \E ok \in BOOLEAN :
       /\ Issue(t, Call("POST orders", ok, 0, event[t].id))
       /\ IF ~ok
            THEN Throw(t, "woocommerce error") /\ UNCHANGED <<orders, response, ret>>
            ELSE LET data == Order(Len(orders) + 1, customerId[t], None,
                                   wooLineItems(event[t].items).items,
                                   << Meta("stripe_checkout_id", event[t].id) >>)
                 IN  /\ orders' = Append(orders, data)
                     /\ response' = [response EXCEPT ![t] = data]
                     /\ IF hasSubscription(event[t].items) /\ event[t].subscription # None
                          THEN Await(t, "putOrder") /\ UNCHANGED ret
                          ELSE Return(t) /\ ret' = [ret EXCEPT ![t] = data]
  /\ UNCHANGED <<customers, subscriptions, customerId, wooSub, event, sigOK>>

\* await WooCommerce.put(`orders/${response.data.id}`, {meta_data}), then
\* return response.data
putOrder(t) ==
  /\ pc[t] = "putOrder"
  /\ \E ok \in BOOLEAN :
       /\ Issue(t, Call("PUT orders", ok, response[t].id, event[t].subscription))
       /\ IF ~ok
            THEN Throw(t, "woocommerce error") /\ UNCHANGED <<orders, ret>>
            ELSE /\ orders' = [orders EXCEPT ![response[t].id].meta_data =
                                 Append(response[t].meta_data,
                                        Meta("stripe_subscription_id", event[t].subscription))]
                 /\ ret' = [ret EXCEPT ![t] = response[t]]
                 /\ Return(t)
  /\ UNCHANGED <<customers, subscriptions, customerId, wooSub, response, event, sigOK>>

createWooOrder(t) == postOrder(t) \/ putOrder(t)

handleCheckoutCompleted(t) ==
  /\ event[t].type = "checkout.session.completed"
  /\ \/ listLineItems(t)
     \/ getOrCreateWooCustomer(t)
     \/ createWooOrder(t)

\* ------------------------------------------- subscription lookup and write
\* the processor subscription id the handler passes to findWooSubscription
StripeSubscriptionId(ev) ==
  IF ev.type = "invoice.paid" THEN ev.subscription ELSE ev.id

\* Array.prototype.sort with (a, b) => date(b) - date(a): stable, newest first
RECURSIVE sortByDateDesc(_)
sortByDateDesc(s) ==
  IF Len(s) <= 1 THEN s
  ELSE LET rest == sortByDateDesc(Tail(s))
           newer == SelectSeq(rest, LAMBDA x : x.date_created > Head(s).date_created)
           older == SelectSeq(rest, LAMBDA x : x.date_created <= Head(s).date_created)
       IN  newer \o <<Head(s)>> \o older

\* findWooSubscription, but the fallback sorts oldest first
findWooSubscriptionOldestFirst(data, stripeSubscriptionId) ==
  LET tagged == SelectSeq(data, LAMBDA sub : sub.stripe_subscription_id = stripeSubscriptionId)
      newestFirst == sortByDateDesc(SelectSeq(data, LAMBDA sub : sub.status = "active"))
      activeSubscriptions ==
        [i \in 1..Len(newestFirst) |-> newestFirst[Len(newestFirst) + 1 - i]]
  IN  IF Len(data) > 0 /\ Len(tagged) > 0 THEN tagged[1].id
      ELSE IF Len(data) > 0 /\ Len(activeSubscriptions) > 0 THEN activeSubscriptions[1].id
      ELSE 0

\* findWooSubscription, but the fallback does not filter on status `active`
findWooSubscriptionAnyStatus(data, stripeSubscriptionId) ==
  LET tagged == SelectSeq(data, LAMBDA sub : sub.stripe_subscription_id = stripeSubscriptionId)
      activeSubscriptions == sortByDateDesc(data)
  IN  IF Len(data) > 0 /\ Len(tagged) > 0 THEN tagged[1].id
      ELSE IF Len(data) > 0 /\ Len(activeSubscriptions) > 0 THEN activeSubscriptions[1].id
      ELSE 0

\* findWooSubscription on the list the back-office returned: the id of the
\* subscription it returns, 0 for null
findWooSubscription(data, stripeSubscriptionId) ==
  LET tagged == SelectSeq(data, LAMBDA sub : sub.stripe_subscription_id = stripeSubscriptionId)
      activeSubscriptions == sortByDateDesc(SelectSeq(data, LAMBDA sub : sub.status = "active"))
  IN  IF Len(data) > 0 /\ Len(tagged) > 0 THEN tagged[1].id
      ELSE IF Len(data) > 0 /\ Len(activeSubscriptions) > 0 THEN activeSubscriptions[1].id
      ELSE 0

\* await stripe.subscriptions.retrieve(invoice.subscription)
retrieveSubscription(t) ==
  /\ pc[t] = "retrieveSubscription"
  /\ \E ok \in BOOLEAN :
       /\ Issue(t, Call("stripe.subscriptions.retrieve", ok, 0, event[t].subscription))
       /\ IF ~ok THEN Throw(t, "stripe error") ELSE Await(t, "retrieveCustomer")
  /\ UNCHANGED <<backoffice, locals, event, sigOK>>

\* await stripe.customers.retrieve(...customer)
retrieveCustomer(t) ==
  /\ pc[t] = "retrieveCustomer"
  /\ \E ok \in BOOLEAN :
       /\ Issue(t, Call("stripe.customers.retrieve", ok, 0, event[t].customer))
       /\ IF ~ok THEN Throw(t, "stripe error") ELSE Await(t, "findCustomer")
  /\ UNCHANGED <<backoffice, locals, event, sigOK>>

\* findWooCustomerByEmail, but without the `if (!customer) throw` of the
\* handler: the lookup of the subscription follows a missing customer
findWooCustomerByEmailNoThrow(t) ==
  /\ pc[t] = "findCustomer"
  /\ \E ok \in BOOLEAN :
       LET email == StripeCustomerEmail[event[t].customer]
           data  == SelectSeq(customers, LAMBDA c : c.email = email)
       IN  /\ Issue(t, Call("GET customers", ok, 0, email))
           /\ IF ~ok
                THEN Throw(t, "woocommerce error") /\ UNCHANGED customerId
                ELSE /\ customerId' = [customerId EXCEPT ![t] =
                                         IF Len(data) > 0 THEN data[1].id ELSE 0]
                     /\ Await(t, "getSubscriptions")
  /\ UNCHANGED <<backoffice, wooSub, response, ret, event, sigOK>>

\* await findWooCustomerByEmail(stripeCustomer.email), then if (!customer) throw
findWooCustomerByEmail(t) ==
  /\ pc[t] = "findCustomer"
  /\ \E ok \in BOOLEAN :
       LET email == StripeCustomerEmail[event[t].customer]
           data  == SelectSeq(customers, LAMBDA c : c.email = email)
       IN  /\ Issue(t, Call("GET customers", ok, 0, email))
           /\ IF ~ok
                THEN Throw(t, "woocommerce error") /\ UNCHANGED customerId
                ELSE IF Len(data) > 0
                  THEN /\ customerId' = [customerId EXCEPT ![t] = data[1].id]
                       /\ Await(t, "getSubscriptions")
                  ELSE /\ Throw(t, "No WooCommerce customer found for email")
                       /\ UNCHANGED customerId
  /\ UNCHANGED <<backoffice, wooSub, response, ret, event, sigOK>>

\* await findWooSubscription(id, customer.id), then if (!wooSubscription) return
getSubscriptions(t, next) ==
  /\ pc[t] = "getSubscriptions"
  /\ \E ok \in BOOLEAN :
       LET data  == SelectSeq(subscriptions, LAMBDA sub : sub.customer_id = customerId[t])
           found == findWooSubscription(data, StripeSubscriptionId(event[t]))
       IN  /\ Issue(t, Call("GET subscriptions", ok, customerId[t], None))
           /\ IF ~ok
                THEN Throw(t, "woocommerce error") /\ UNCHANGED wooSub
                ELSE /\ wooSub' = [wooSub EXCEPT ![t] = found]
                     /\ IF found = 0 THEN Return(t) ELSE Await(t, next)
  /\ UNCHANGED <<backoffice, customerId, response, ret, event, sigOK>>

\* updateWooSubscriptionStatus, but the status is written to every
\* subscription of the customer
updateWooSubscriptionStatusAll(t, stripeStatus) ==
  /\ pc[t] = "putSubscription"
  /\ \E ok \in BOOLEAN :
       /\ Issue(t, Call("PUT subscriptions", ok, wooSub[t], wooStatus(stripeStatus)))
       /\ IF ~ok
            THEN Throw(t, "woocommerce error") /\ UNCHANGED <<subscriptions, ret>>
            ELSE /\ subscriptions' =
                      [i \in 1..Len(subscriptions) |->
                         IF subscriptions[i].customer_id = customerId[t]
                           THEN [subscriptions[i] EXCEPT !.status = wooStatus(stripeStatus)]
                           ELSE subscriptions[i]]
                 /\ UNCHANGED ret
                 /\ Return(t)
  /\ UNCHANGED <<customers, orders, customerId, wooSub, response, event, sigOK>>

\* await updateWooSubscriptionStatus(wooSubscription.id, stripeStatus)
updateWooSubscriptionStatus(t, stripeStatus) ==
  /\ pc[t] = "putSubscription"
  /\ \E ok \in BOOLEAN :
       /\ Issue(t, Call("PUT subscriptions", ok, wooSub[t], wooStatus(stripeStatus)))
       /\ IF ~ok
            THEN Throw(t, "woocommerce error") /\ UNCHANGED <<subscriptions, ret>>
            ELSE /\ subscriptions' =
                      [subscriptions EXCEPT ![wooSub[t]].status = wooStatus(stripeStatus)]
                 /\ UNCHANGED ret
                 /\ Return(t)
  /\ UNCHANGED <<customers, orders, customerId, wooSub, response, event, sigOK>>

\* await WooCommerce.post('orders', renewalOrderData)
postRenewalOrder(t) ==
  /\ pc[t] = "postRenewalOrder"
  /\ \E ok \in BOOLEAN :
       /\ Issue(t, Call("POST orders", ok, 0, event[t].id))
       /\ IF ~ok
            THEN Throw(t, "woocommerce error") /\ UNCHANGED <<orders, response>>
            ELSE LET data == Order(Len(orders) + 1, customerId[t], "processing",
                                   subscriptions[wooSub[t]].line_items,
                                   << Meta("stripe_invoice_id", event[t].id),
                                      Meta("stripe_subscription_id", event[t].subscription),
                                      Meta("is_renewal", "true") >>)
                 IN  /\ orders' = Append(orders, data)
                     /\ response' = [response EXCEPT ![t] = data]
                     /\ Await(t, "putSubscription")
  /\ UNCHANGED <<customers, subscriptions, customerId, wooSub, ret, event, sigOK>>

\* processSubscriptionRenewal, but the status written follows the invoice
\* status (`paid`) instead of the fixed 'active'
processSubscriptionRenewalInvoiceStatus(t) ==
  \/ getSubscriptions(t, "postRenewalOrder")
  \/ postRenewalOrder(t)
  \/ updateWooSubscriptionStatus(t, "paid")

processSubscriptionRenewal(t) ==
  \/ getSubscriptions(t, "postRenewalOrder")
  \/ postRenewalOrder(t)
  \/ updateWooSubscriptionStatus(t, "active")

handleInvoicePaid(t) ==
  /\ event[t].type = "invoice.paid"
  /\ \/ retrieveSubscription(t)
     \/ retrieveCustomer(t)
     \/ findWooCustomerByEmail(t)
     \/ processSubscriptionRenewal(t)

\* handleSubscriptionUpdated, but the status written is always that of an
\* active subscription, not the event's
handleSubscriptionUpdatedActive(t) ==
  /\ event[t].type = "customer.subscription.updated"
  /\ \/ retrieveCustomer(t)
     \/ findWooCustomerByEmail(t)
     \/ getSubscriptions(t, "putSubscription")
     \/ updateWooSubscriptionStatus(t, "active")

handleSubscriptionUpdated(t) ==
  /\ event[t].type = "customer.subscription.updated"
  /\ \/ retrieveCustomer(t)
     \/ findWooCustomerByEmail(t)
     \/ getSubscriptions(t, "putSubscription")
     \/ updateWooSubscriptionStatus(t, event[t].status)

handleSubscriptionCancelled(t) ==
  /\ event[t].type = "customer.subscription.deleted"
  /\ \/ retrieveCustomer(t)
     \/ findWooCustomerByEmail(t)
     \/ getSubscriptions(t, "putSubscription")
     \/ updateWooSubscriptionStatus(t, "cancelled")

\* the events of the concurrent specification: checkout sessions with an
\* e-mail, a processor subscription id and a single line item
ConcurrentEvents ==
  {e \in CheckoutEvents : /\ e.email # None
                          /\ e.subscription # None
                          /\ Len(e.items) = 1
                          /\ e.items[1].quantity = 1}

\* --------------------------------------------------------- specifications
handle(t) ==
  \/ handleCheckoutCompleted(t)
  \/ handleInvoicePaid(t)
  \/ handleSubscriptionUpdated(t)
  \/ handleSubscriptionCancelled(t)

\* one request, any event
Next == Webhook(1, Events) \/ handle(1)

Spec == Init /\ [][Next]_vars

\* NumTasks requests processed concurrently, interleaved at their awaits
ConcurrentNext ==
  \E t \in Tasks : Webhook(t, ConcurrentEvents) \/ handleCheckoutCompleted(t)

ConcurrentSpec == Init /\ [][ConcurrentNext]_vars

\* no request is in flight
Quiet == \A u \in Tasks : pc[u] \in {"idle", "done"}

\* NumTasks deliveries processed one after another: a request arrives only
\* when the previous one has been answered
SequentialNext ==
  \E t \in Tasks :
     \/ Quiet /\ Webhook(t, ConcurrentEvents)
     \/ handleCheckoutCompleted(t)

SequentialSpec == Init /\ [][SequentialNext]_vars

\* ----------------------------------------- the Subscription Locator alone
\* every subscription list of customer 1 up to MaxSubs entries
SubShape ==
  [status : {"active", "on-hold"}, tag : {None, "sub_1", "sub_9"}, created : 1..MaxDate]

LocatorLists ==
  UNION { { [i \in 1..n |-> Sub(i, f[i].status, f[i].tag, f[i].created)] :
              f \in [1..n -> SubShape] } : n \in 0..MaxSubs }

LocatorEvents ==
  {e \in UpdatedEvents : e.customer = "cus_1" /\ e.status = "past_due"}

LocatorInit ==
  /\ customers = << [id |-> 1, email |-> "a@example.com"] >>
  /\ orders = << >>
  /\ subscriptions \in LocatorLists
  /\ pc = [t \in Tasks |-> "idle"]
  /\ event = [t \in Tasks |-> NoEvent]
  /\ sigOK = [t \in Tasks |-> FALSE]
  /\ customerId = [t \in Tasks |-> 0]
  /\ wooSub = [t \in Tasks |-> 0]
  /\ response = [t \in Tasks |-> NoOrder]
  /\ ret = [t \in Tasks |-> NoOrder]
  /\ err = [t \in Tasks |-> None]
  /\ responses = [t \in Tasks |-> << >>]
  /\ calls = [t \in Tasks |-> << >>]

\* one customer.subscription.updated request over any subscription list
LocatorNext == Webhook(1, LocatorEvents) \/ handleSubscriptionUpdated(1)

LocatorSpec == LocatorInit /\ [][LocatorNext]_vars

\* ------------------------------------------------ vocabulary of the claims
CallsOf(t, op) == SelectSeq(calls[t], LAMBDA c : c.op = op)

WriteOps == {"POST customers", "POST orders", "PUT orders", "PUT subscriptions"}

WritesOf(t) == SelectSeq(calls[t], LAMBDA c : c.op \in WriteOps)

SomeCallFailed(t) == \E i \in 1..Len(calls[t]) : ~calls[t][i].ok

LastCallIs(t, op) ==
  /\ Len(calls[t]) > 0
  /\ calls[t][Len(calls[t])].op = op
  /\ calls[t][Len(calls[t])].ok

HasMeta(order, key, value) ==
  \E i \in 1..Len(order.meta_data) : order.meta_data[i] = Meta(key, value)

IsCheckout(t) == event[t].type = "checkout.session.completed"

AllMapped(items) ==
  \A i \in 1..Len(items) : items[i].price \in {"price_123456789", "price_987654321"}

\* ---------------------------------------------------------------- C1
\* C1: a verified customer.subscription.deleted event whose customer is found
\* and whose subscription is located issues exactly one subscription status
\* write, to the located subscription, and the status written is `cancelled`.
C1_CancelWritesCancelled ==
  \A t \in Tasks :
    ( /\ event[t].type = "customer.subscription.deleted"
      /\ sigOK[t]
      /\ wooSub[t] # 0
      /\ pc[t] = "done" )
    => /\ Len(CallsOf(t, "PUT subscriptions")) = 1
       /\ CallsOf(t, "PUT subscriptions")[1].target = wooSub[t]
       /\ CallsOf(t, "PUT subscriptions")[1].value = "cancelled"

\* ---------------------------------------------------------------- C2
\* C2: for a checkout session with a subscription-mapped line item and a
\* processor subscription id, the record createWooOrder returns after the
\* create and the amend succeeded carries both the stripe_checkout_id tag and
\* the stripe_subscription_id tag.
C2_ReturnsFinalMetadata ==
  \A t \in Tasks :
    ( /\ IsCheckout(t)
      /\ \E i \in 1..Len(event[t].items) : event[t].items[i].price = "price_123456789"
      /\ event[t].subscription # None
      /\ LastCallIs(t, "PUT orders")
      /\ pc[t] = "done" )
    => /\ HasMeta(ret[t], "stripe_checkout_id", event[t].id)
       /\ HasMeta(ret[t], "stripe_subscription_id", event[t].subscription)

\* ---------------------------------------------------------------- C3
\* C3: for checkout events carrying the same e-mail, processed one after
\* another or interleaved at their awaits, at most one customer create
\* succeeds for that e-mail (later events reuse the existing customer).
C3_AtMostOneCustomerCreate ==
  \A e \in Emails :
    Cardinality({t \in Tasks :
                   \E i \in 1..Len(calls[t]) :
                      /\ calls[t][i].op = "POST customers"
                      /\ calls[t][i].ok
                      /\ calls[t][i].value = e}) <= 1

\* ---------------------------------------------------------------- C4
\* C4: a request whose signature verification fails ends with a 400, runs no
\* handler and issues no call to either external system; every call and
\* every handler step belongs to a request whose verification succeeded.
C4_VerifyBeforeHandlers ==
  \A t \in Tasks :
    /\ (pc[t] # "idle" /\ ~sigOK[t])
         => /\ pc[t] = "done"
            /\ responses[t] = <<400>>
            /\ calls[t] = << >>
            /\ customerId[t] = 0 /\ wooSub[t] = 0 /\ response[t] = NoOrder
    /\ (calls[t] # << >> \/ pc[t] \notin {"idle", "done"}) => sigOK[t]

C4_Witness ==
  \E t \in Tasks :
    /\ pc[t] = "done" /\ ~sigOK[t]
    /\ IsCheckout(t)
    /\ responses[t] = <<400>>

\* ---------------------------------------------------------------- C5
\* a step of the dispatched handler failed: an external call failed, the
\* session has no e-mail, a line item is unmapped, or no customer was found
HandlerFailed(t) ==
  \/ SomeCallFailed(t)
  \/ IsCheckout(t) /\ event[t].email = None /\ LastCallIs(t, "stripe.listLineItems")
  \/ IsCheckout(t) /\ ~AllMapped(event[t].items) /\ customerId[t] # 0
  \/ ~IsCheckout(t) /\ LastCallIs(t, "GET customers") /\ customerId[t] = 0

\* C5: a finished request has received exactly one response: 400 if the
\* verification failed, 500 if it succeeded and a handler step failed, 200
\* otherwise (also when no subscription matched); an unfinished request has
\* received none.
C5_ExactlyOneResponse ==
  \A t \in Tasks :
    /\ pc[t] # "done" => responses[t] = << >>
    /\ pc[t] = "done" =>
         responses[t] = << IF ~sigOK[t] THEN 400
                           ELSE IF HandlerFailed(t) THEN 500 ELSE 200 >>

C5_Witness ==
  \E t \in Tasks :
    /\ pc[t] = "done" /\ sigOK[t]
    /\ event[t].type = "customer.subscription.updated"
    /\ LastCallIs(t, "GET customers") /\ customerId[t] = 0
    /\ responses[t] = <<500>>

\* ---------------------------------------------------------------- C6
KnownTypes ==
  {"checkout.session.completed", "invoice.paid",
   "customer.subscription.updated", "customer.subscription.deleted"}

\* C6: within one event, a failed external call is the last call issued and
\* ends the request with a 500; no external call is issued twice; a handler
\* that ends with a 200 either completed its last write or found no
\* matching subscription.
C6_AbortOnFirstFailure ==
  \A t \in Tasks :
    /\ \A i \in 1..Len(calls[t]) :
         ~calls[t][i].ok => /\ i = Len(calls[t])
                            /\ pc[t] = "done"
                            /\ responses[t] = <<500>>
    /\ \A i, j \in 1..Len(calls[t]) : i < j => calls[t][i].op # calls[t][j].op
    /\ (pc[t] = "done" /\ responses[t] = <<200>> /\ event[t].type \in KnownTypes)
         => IF IsCheckout(t)
              THEN LastCallIs(t, "POST orders") \/ LastCallIs(t, "PUT orders")
              ELSE \/ LastCallIs(t, "PUT subscriptions")
                   \/ LastCallIs(t, "GET subscriptions") /\ wooSub[t] = 0

C6_Witness ==
  \E t \in Tasks :
    /\ event[t].type = "invoice.paid"
    /\ Len(calls[t]) = 5
    /\ calls[t][5].op = "POST orders" /\ ~calls[t][5].ok
    /\ responses[t] = <<500>>

\* ---------------------------------------------------------------- C7
\* C7: a checkout session with a line item whose price id is not in the
\* Product Mapping Table, at any position, gets no order create and no order
\* amend: once the customer is resolved, createWooOrder fails with the
\* unmapped-product error, and the request ends with a 500.
C7_UnmappedNoOrderWrite ==
  \A t \in Tasks :
    (IsCheckout(t) /\ ~AllMapped(event[t].items))
    => /\ CallsOf(t, "POST orders") = << >>
       /\ CallsOf(t, "PUT orders") = << >>
       /\ response[t] = NoOrder
       /\ customerId[t] # 0 =>
            /\ pc[t] = "done"
            /\ err[t] = "No product mapping found for Stripe price ID"
       /\ (pc[t] = "done" /\ sigOK[t]) => responses[t] = <<500>>

C7_Witness ==
  \E t \in Tasks :
    /\ IsCheckout(t)
    /\ Len(event[t].items) = 2
    /\ event[t].items[1].price = "price_987654321"
    /\ event[t].items[2].price = "price_unknown"
    /\ customerId[t] # 0
    /\ err[t] = "No product mapping found for Stripe price ID"
    /\ CallsOf(t, "POST orders") = << >>

\* ---------------------------------------------------------------- C8
\* the session needs the amend: a line item is a subscription product and
\* the session carries a processor subscription id
NeedsAmend(ev) ==
  /\ \E i \in 1..Len(ev.items) : ev.items[i].price = "price_123456789"
  /\ ev.subscription # None

\* C8: for a checkout session whose line items are all mapped, createWooOrder
\* issues one order create and, after it succeeded, one order amend exactly
\* when a line item is a subscription product and the session carries a
\* subscription id; the amend follows the create and targets the order just
\* created (2 order writes in that case, 1 otherwise).
C8_OrderWrites ==
  \A t \in Tasks :
    (IsCheckout(t) /\ AllMapped(event[t].items))
    => LET creates == CallsOf(t, "POST orders")
           amends  == CallsOf(t, "PUT orders")
       IN  /\ Len(creates) <= 1 /\ Len(amends) <= 1
           /\ Len(amends) = 1 =>
                /\ NeedsAmend(event[t])
                /\ Len(creates) = 1 /\ creates[1].ok
                /\ \E i, j \in 1..Len(calls[t]) :
                      /\ i < j
                      /\ calls[t][i].op = "POST orders"
                      /\ calls[t][j].op = "PUT orders"
                /\ amends[1].target = response[t].id
                /\ response[t].id \in 1..Len(orders)
                /\ HasMeta(orders[response[t].id], "stripe_checkout_id", event[t].id)
           /\ (Len(creates) = 1 /\ creates[1].ok /\ NeedsAmend(event[t]))
                => (pc[t] = "putOrder" \/ Len(amends) = 1)
           /\ (Len(creates) = 1 /\ creates[1].ok /\ ~NeedsAmend(event[t]))
                => (pc[t] = "done" /\ Len(amends) = 0)
           /\ (pc[t] = "done" /\ responses[t] = <<200>>)
                => /\ Len(creates) = 1
                   /\ Len(amends) = (IF NeedsAmend(event[t]) THEN 1 ELSE 0)
                   /\ Len(CallsOf(t, "POST orders") \o CallsOf(t, "PUT orders"))
                        = (IF NeedsAmend(event[t]) THEN 2 ELSE 1)

C8_Witness ==
  \E t \in Tasks :
    /\ IsCheckout(t)
    /\ Len(event[t].items) = 2
    /\ event[t].items[1].price = "price_987654321"
    /\ event[t].items[2].price = "price_123456789"
    /\ event[t].subscription = "sub_1"
    /\ pc[t] = "done" /\ responses[t] = <<200>>
    /\ LastCallIs(t, "PUT orders")

\* ---------------------------------------------------------------- C9
\* C9: for a checkout session whose line items are all mapped, the order
\* created has one line item per session line item, in the same order, with
\* the product id mapped from the price id (price_123456789 -> 123,
\* price_987654321 -> 456) and the same quantity; the order is marked paid,
\* belongs to the resolved customer and is tagged with the checkout id.
C9_LineItemsOneToOne ==
  \A t \in Tasks :
    (IsCheckout(t) /\ AllMapped(event[t].items) /\ response[t].id # 0)
    => LET o == orders[response[t].id]
       IN  /\ Len(o.line_items) = Len(event[t].items)
           /\ \A i \in 1..Len(event[t].items) :
                /\ o.line_items[i].product_id =
                     (IF event[t].items[i].price = "price_123456789" THEN 123 ELSE 456)
                /\ o.line_items[i].quantity = event[t].items[i].quantity
           /\ o.set_paid
           /\ o.customer_id = customerId[t]
           /\ HasMeta(o, "stripe_checkout_id", event[t].id)
           /\ response[t].line_items = o.line_items

C9_Witness ==
  \E t \in Tasks :
    /\ IsCheckout(t)
    /\ event[t].items = << [price |-> "price_123456789", quantity |-> 2],
                           [price |-> "price_987654321", quantity |-> 1] >>
    /\ response[t].id # 0
    /\ orders[response[t].id].line_items =
         << [product_id |-> 123, quantity |-> 2], [product_id |-> 456, quantity |-> 1] >>

\* ---------------------------------------------------------------- C10
\* the customer holds no subscription tagged with the id and no active one
NoneMatches(cid, stripeSubscriptionId) ==
  \A i \in 1..Len(subscriptions) :
     subscriptions[i].customer_id = cid
       => /\ subscriptions[i].stripe_subscription_id # stripeSubscriptionId
          /\ subscriptions[i].status # "active"

\* C10: an invoice.paid event whose customer is found and for which the
\* Subscription Locator returns absence issues no back-office write (no
\* renewal order, no status write) and is acknowledged with a 200; the
\* locator returns absence whenever the customer holds no tagged and no
\* active subscription.
C10_RenewalSkipped ==
  \A t \in Tasks :
    (event[t].type = "invoice.paid" /\ customerId[t] # 0
       /\ LastCallIs(t, "GET subscriptions"))
    => /\ NoneMatches(customerId[t], event[t].subscription) => wooSub[t] = 0
       /\ wooSub[t] = 0 =>
            /\ WritesOf(t) = << >>
            /\ orders = << >>
            /\ pc[t] = "done"
            /\ err[t] = None
            /\ responses[t] = <<200>>

C10_Witness ==
  \E t \in Tasks :
    /\ event[t].type = "invoice.paid"
    /\ customerId[t] # 0
    /\ subscriptions # << >>
    /\ LastCallIs(t, "GET subscriptions")
    /\ wooSub[t] = 0
    /\ responses[t] = <<200>>

\* ---------------------------------------------------------------- C11
\* C11: an invoice.paid event whose processor customer's e-mail matches no
\* back-office customer fails with the customer-not-found error and a 500;
\* no customer is created, no back-office write is issued and the
\* Subscription Locator is not called.
C11_RenewalCustomerNotFound ==
  \A t \in Tasks :
    ( /\ event[t].type = "invoice.paid"
      /\ \E i \in 1..Len(calls[t]) : calls[t][i].op = "GET customers" /\ calls[t][i].ok
      /\ \A i \in 1..Len(customers) :
            customers[i].email # StripeCustomerEmail[event[t].customer] )
    => /\ pc[t] = "done"
       /\ err[t] = "No WooCommerce customer found for email"
       /\ responses[t] = <<500>>
       /\ WritesOf(t) = << >>
       /\ CallsOf(t, "GET subscriptions") = << >>
       /\ LastCallIs(t, "GET customers")
       /\ customerId[t] = 0 /\ orders = << >>

C11_Witness ==
  \E t \in Tasks :
    /\ event[t].type = "invoice.paid"
    /\ event[t].customer = "cus_2"
    /\ customers # << >>
    /\ LastCallIs(t, "GET customers")
    /\ responses[t] = <<500>>

\* ---------------------------------------------------------------- C12
\* C12: an invoice.paid event for which a subscription is located creates
\* one renewal order (paid, status `processing`, the located subscription's
\* product ids and quantities, tagged with the invoice id, the subscription
\* id and the renewal flag) and, only after that create succeeded, writes
\* the located subscription's status as `active`, whatever its prior status;
\* no status write precedes the create or follows a failed create.
C12_RenewalOrderThenActive ==
  \A t \in Tasks :
    (event[t].type = "invoice.paid" /\ wooSub[t] # 0)
    => LET creates == CallsOf(t, "POST orders")
           writes  == CallsOf(t, "PUT subscriptions")
       IN  /\ Len(creates) <= 1 /\ Len(writes) <= 1
           /\ CallsOf(t, "PUT orders") = << >>
           /\ Len(creates) = 0 => (pc[t] = "postRenewalOrder" /\ Len(writes) = 0)
           /\ (Len(creates) = 1 /\ ~creates[1].ok)
                => (Len(writes) = 0 /\ orders = << >> /\ responses[t] = <<500>>)
           /\ (Len(creates) = 1 /\ creates[1].ok)
                => /\ response[t].id \in 1..Len(orders)
                   /\ LET o == orders[response[t].id]
                      IN  /\ o.set_paid
                          /\ o.status = "processing"
                          /\ o.customer_id = customerId[t]
                          /\ Len(o.line_items) = Len(subscriptions[wooSub[t]].line_items)
                          /\ \A i \in 1..Len(o.line_items) :
                               /\ o.line_items[i].product_id =
                                    subscriptions[wooSub[t]].line_items[i].product_id
                               /\ o.line_items[i].quantity =
                                    subscriptions[wooSub[t]].line_items[i].quantity
                          /\ o.meta_data = << Meta("stripe_invoice_id", event[t].id),
                                              Meta("stripe_subscription_id", event[t].subscription),
                                              Meta("is_renewal", "true") >>
                   /\ Len(orders) = 1
                   /\ (pc[t] = "putSubscription" \/ Len(writes) = 1)
           /\ Len(writes) = 1 =>
                /\ Len(creates) = 1 /\ creates[1].ok
                /\ calls[t][Len(calls[t])].op = "PUT subscriptions"
                /\ calls[t][Len(calls[t]) - 1].op = "POST orders"
                /\ writes[1].target = wooSub[t]
                /\ writes[1].value = "active"
                /\ writes[1].ok => subscriptions[wooSub[t]].status = "active"
           /\ (pc[t] = "done" /\ responses[t] = <<200>>)
                => (Len(creates) = 1 /\ Len(writes) = 1 /\ writes[1].ok)

C12_Witness ==
  \E t \in Tasks :
    /\ event[t].type = "invoice.paid"
    /\ Len(subscriptions) = 2
    /\ wooSub[t] = 2
    /\ subscriptions[2].stripe_subscription_id = "sub_1"
    /\ subscriptions[2].status = "active"
    /\ Len(orders) = 1
    /\ pc[t] = "done" /\ responses[t] = <<200>>

\* ---------------------------------------------------------------- C13
\* C13: the Subscription Locator returns the first subscription of the
\* customer's list tagged with the given processor subscription id, whatever
\* its status; otherwise an `active` subscription whose creation date is the
\* latest among the active ones; otherwise (empty list, or no tag match and
\* none active) absence, which is not an error.
C13_Locator ==
  \A t \in Tasks :
    LastCallIs(t, "GET subscriptions")
    => LET mine   == {i \in 1..Len(subscriptions) :
                        subscriptions[i].customer_id = customerId[t]}
           tagged == {i \in mine : subscriptions[i].stripe_subscription_id
                                     = StripeSubscriptionId(event[t])}
           active == {i \in mine : subscriptions[i].status = "active"}
       IN  IF tagged # {}
             THEN /\ wooSub[t] \in tagged
                  /\ \A i \in tagged : wooSub[t] <= i
           ELSE IF active # {}
             THEN /\ wooSub[t] \in active
                  /\ \A i \in active :
                       subscriptions[wooSub[t]].date_created >= subscriptions[i].date_created
           ELSE /\ wooSub[t] = 0
                /\ err[t] = None
                /\ pc[t] = "done"
                /\ responses[t] = <<200>>

C13_Witness ==
  \E t \in Tasks :
    /\ LastCallIs(t, "GET subscriptions")
    /\ Len(subscriptions) = 2
    /\ subscriptions[1].status = "active" /\ subscriptions[1].date_created = 1
    /\ subscriptions[2].status = "active" /\ subscriptions[2].date_created = 2
    /\ subscriptions[1].stripe_subscription_id = "sub_9"
    /\ subscriptions[2].stripe_subscription_id = None
    /\ wooSub[t] = 2

\* ---------------------------------------------------------------- C14
\* the translation table as the specification gives it
TranslationTable(s) ==
  CASE s = "active"             -> "active"
    [] s = "past_due"           -> "on-hold"
    [] s = "unpaid"             -> "on-hold"
    [] s = "canceled"           -> "cancelled"
    [] s = "incomplete"         -> "pending"
    [] s = "incomplete_expired" -> "cancelled"
    [] s = "trialing"           -> "active"
    [] s = "paused"             -> "on-hold"
    [] OTHER                    -> "on-hold"

\* C14: the status a customer.subscription.updated event makes the bridge
\* write is the table's value for each of the eight recognized processor
\* statuses and `on-hold` for any other status; an unrecognized status does
\* not make the handler fail.
C14_StatusTranslator ==
  \A t \in Tasks :
    event[t].type = "customer.subscription.updated"
    => /\ \A i \in 1..Len(calls[t]) :
            calls[t][i].op = "PUT subscriptions"
              => /\ calls[t][i].value = TranslationTable(event[t].status)
                 /\ calls[t][i].ok =>
                      subscriptions[calls[t][i].target].status
                        = TranslationTable(event[t].status)
       /\ (pc[t] = "done" /\ wooSub[t] # 0 /\ ~SomeCallFailed(t))
            => /\ responses[t] = <<200>>
               /\ Len(CallsOf(t, "PUT subscriptions")) = 1

C14_Witness ==
  \E t \in Tasks :
    /\ event[t].type = "customer.subscription.updated"
    /\ event[t].status = "bogus"
    /\ LastCallIs(t, "PUT subscriptions")
    /\ Len(subscriptions) = 2
    /\ subscriptions[2].status = "on-hold"
    /\ responses[t] = <<200>>

\* ---------------------------------------------------------------- C15
\* C15: a customer.subscription.updated event whose customer is found and
\* whose subscription is located issues exactly one back-office write, a
\* status write to the located subscription carrying the Status Translator's
\* image of the event's status (past_due gives on-hold); when the locator
\* returns absence it issues no write and the request is acknowledged.
C15_UpdatedWritesTranslatedStatus ==
  \A t \in Tasks :
    ( /\ event[t].type = "customer.subscription.updated"
      /\ \E i \in 1..Len(calls[t]) : calls[t][i].op = "GET subscriptions" /\ calls[t][i].ok )
    => IF wooSub[t] = 0
         THEN /\ WritesOf(t) = << >>
              /\ pc[t] = "done"
              /\ err[t] = None
              /\ responses[t] = <<200>>
         ELSE /\ pc[t] \in {"putSubscription", "done"}
              /\ pc[t] = "putSubscription" => WritesOf(t) = << >>
              /\ pc[t] = "done" =>
                   /\ Len(WritesOf(t)) = 1
                   /\ WritesOf(t)[1].op = "PUT subscriptions"
                   /\ WritesOf(t)[1].target = wooSub[t]
                   /\ WritesOf(t)[1].value = wooStatus(event[t].status)
                   /\ event[t].status = "past_due" => WritesOf(t)[1].value = "on-hold"
                   /\ WritesOf(t)[1].ok
                        => /\ subscriptions[wooSub[t]].status = wooStatus(event[t].status)
                           /\ responses[t] = <<200>>
              /\ orders = << >>

C15_Witness ==
  \E t \in Tasks :
    /\ event[t].type = "customer.subscription.updated"
    /\ event[t].status = "past_due"
    /\ Len(subscriptions) = 2
    /\ wooSub[t] = 2
    /\ subscriptions[2].stripe_subscription_id = None
    /\ subscriptions[2].status = "on-hold"
    /\ subscriptions[1].status = "active"
    /\ pc[t] = "done" /\ responses[t] = <<200>>

\* ---------------------------------------------------------------- C16
\* C16: a correctly signed event whose type is none of the four recognized
\* types runs no handler, issues no call to the processor or to the
\* back-office system, and is acknowledged with a 200.
C16_UnknownTypeAcknowledged ==
  \A t \in Tasks :
    (pc[t] # "idle" /\ sigOK[t] /\ event[t].type \notin KnownTypes)
    => /\ pc[t] = "done"
       /\ responses[t] = <<200>>
       /\ err[t] = None
       /\ calls[t] = << >>
       /\ customerId[t] = 0 /\ wooSub[t] = 0 /\ response[t] = NoOrder
       /\ orders = << >>

C16_Witness ==
  \E t \in Tasks :
    /\ sigOK[t]
    /\ event[t].type = "charge.succeeded"
    /\ pc[t] = "done"
    /\ responses[t] = <<200>>

\* ---------------------------------------------------------------- C17
\* C17: a checkout.session.completed event delivered n times, each
\* processing succeeding, gets n order creates and leaves n back-office
\* orders tagged with the same stripe_checkout_id (no deduplication), while
\* the deliveries, processed one after another, create the customer of the
\* e-mail at most once and all use the same customer.
C17_RedeliveryNotIdempotent ==
  \A e \in ConcurrentEvents :
    LET D == {t \in Tasks : event[t] = e /\ pc[t] = "done" /\ responses[t] = <<200>>}
    IN  /\ \A t \in D :
             /\ Len(CallsOf(t, "POST orders")) = 1
             /\ response[t].id \in 1..Len(orders)
             /\ HasMeta(orders[response[t].id], "stripe_checkout_id", e.id)
        /\ \A t, u \in D : t # u => response[t].id # response[u].id
        /\ Cardinality({i \in 1..Len(orders) :
                          HasMeta(orders[i], "stripe_checkout_id", e.id)}) >= Cardinality(D)
        /\ Cardinality({i \in 1..Len(customers) : customers[i].email = e.email}) <= 1
        /\ Cardinality({t \in Tasks :
                          \E i \in 1..Len(calls[t]) :
                             /\ calls[t][i].op = "POST customers"
                             /\ calls[t][i].ok
                             /\ calls[t][i].value = e.email}) <= 1
        /\ \A t, u \in D : customerId[t] = customerId[u]

C17_Witness ==
  \E t, u \in Tasks :
    /\ t # u
    /\ event[t] = event[u]
    /\ pc[t] = "done" /\ responses[t] = <<200>>
    /\ pc[u] = "done" /\ responses[u] = <<200>>
    /\ CallsOf(t, "POST customers") # << >>
    /\ CallsOf(u, "POST customers") = << >>
    /\ Len(orders) = 2
    /\ HasMeta(orders[1], "stripe_checkout_id", "cs_1")
    /\ HasMeta(orders[2], "stripe_checkout_id", "cs_1")
    /\ Len(customers) = 1

\* ---------------------------------------------------------------- C18
\* C18: the order create and the subscription-tag amend are not atomic:
\* while the amend is pending, and after it failed, the back-office holds
\* the created order with the stripe_checkout_id tag and without the
\* stripe_subscription_id tag; a failed amend is the last call of its
\* request (no delete, no retry), the request gets a 500, and no other
\* delivery amends that order: a delivery that creates an order creates
\* another one.
C18_AmendNotAtomic ==
  \A t \in Tasks :
    ( /\ IsCheckout(t)
      /\ \/ pc[t] = "putOrder"
         \/ \E i \in 1..Len(calls[t]) : calls[t][i].op = "PUT orders" /\ ~calls[t][i].ok )
    => /\ response[t].id \in 1..Len(orders)
       /\ HasMeta(orders[response[t].id], "stripe_checkout_id", event[t].id)
       /\ ~HasMeta(orders[response[t].id], "stripe_subscription_id", event[t].subscription)
       /\ \A u \in Tasks \ {t} :
            /\ \A i \in 1..Len(calls[u]) :
                 calls[u][i].op = "PUT orders" => calls[u][i].target # response[t].id
            /\ response[u].id # response[t].id
       /\ pc[t] # "putOrder" =>
            /\ calls[t][Len(calls[t])].op = "PUT orders"
            /\ ~calls[t][Len(calls[t])].ok
            /\ Len(CallsOf(t, "PUT orders")) = 1
            /\ Len(CallsOf(t, "POST orders")) = 1
            /\ pc[t] = "done"
            /\ responses[t] = <<500>>

C18_Witness ==
  \E t, u \in Tasks :
    /\ t # u
    /\ event[t] = event[u]
    /\ \E i \in 1..Len(calls[t]) : calls[t][i].op = "PUT orders" /\ ~calls[t][i].ok
    /\ responses[t] = <<500>>
    /\ pc[u] = "done" /\ responses[u] = <<200>>
    /\ Len(orders) = 2
    /\ response[t].id = 1 /\ response[u].id = 2
    /\ ~HasMeta(orders[1], "stripe_subscription_id", "sub_1")
    /\ HasMeta(orders[2], "stripe_subscription_id", "sub_1")

\* ---------------------------------------------------------------- C19
\* C19: in checkout handling the customer is resolved before any line item
\* goes through the Product Mapping Table: an order write is preceded by a
\* successful customer query for the session's e-mail (and by a successful
\* customer create when one was issued); an event failing on an unmapped
\* price id has resolved its customer, issued no order write and at most one
\* back-office write, the create of the customer whose e-mail was unknown;
\* an event with no e-mail issues no back-office call.
C19_CustomerBeforeLineItems ==
  \A t \in Tasks :
    IsCheckout(t)
    => /\ \A j \in 1..Len(calls[t]) :
            calls[t][j].op \in {"POST orders", "PUT orders"}
              => /\ \E i \in 1..(j - 1) :
                      /\ calls[t][i].op = "GET customers"
                      /\ calls[t][i].ok
                      /\ calls[t][i].value = event[t].email
                 /\ \A i \in 1..Len(calls[t]) :
                      calls[t][i].op = "POST customers" => (i < j /\ calls[t][i].ok)
                 /\ customerId[t] \in 1..Len(customers)
                 /\ customers[customerId[t]].email = event[t].email
       /\ err[t] = "No product mapping found for Stripe price ID"
            => /\ customerId[t] \in 1..Len(customers)
               /\ customers[customerId[t]].email = event[t].email
               /\ CallsOf(t, "POST orders") = << >>
               /\ CallsOf(t, "PUT orders") = << >>
               /\ Len(WritesOf(t)) <= 1
               /\ Len(WritesOf(t)) = 1 =>
                    /\ WritesOf(t)[1] = Call("POST customers", TRUE, 0, event[t].email)
                    /\ customerId[t] = Len(customers)
                    /\ \A i \in 1..(Len(customers) - 1) :
                          customers[i].email # event[t].email
       /\ (~AllMapped(event[t].items) /\ customerId[t] # 0)
            => err[t] = "No product mapping found for Stripe price ID"
       /\ event[t].email = None
            => \A i \in 1..Len(calls[t]) : calls[t][i].op = "stripe.listLineItems"

C19_Witness ==
  \E t \in Tasks :
    /\ IsCheckout(t)
    /\ event[t].email = "b@example.com"
    /\ event[t].items[1].price = "price_unknown"
    /\ err[t] = "No product mapping found for Stripe price ID"
    /\ WritesOf(t) = << Call("POST customers", TRUE, 0, "b@example.com") >>
    /\ Len(customers) = 2
    /\ responses[t] = <<500>>

\* ---------------------------------------------------------------- C20
\* the successful calls of a kind
OkCalls(t, op) == SelectSeq(calls[t], LAMBDA c : c.op = op /\ c.ok)

\* the back-office customers before the request
CustomersBefore(t) ==
  SubSeq(customers, 1, Len(customers) - Len(OkCalls(t, "POST customers")))

\* C20: the writes of a request by event kind.  subscription updated and
\* deleted: at most one write, a status write to the located subscription,
\* every other subscription, the orders and the customers unchanged.
\* invoice paid: no customer create, no order amend.  checkout completed: no
\* subscription write.  No kind deletes: every call is a get, a post or a
\* put, and customers and orders only grow by the successful creates.
C20_WriteFootprint ==
  \A t \in {u \in Tasks : pc[u] # "idle"} :
    /\ \A i \in 1..Len(calls[t]) :
         calls[t][i].op \in {"stripe.listLineItems", "stripe.subscriptions.retrieve",
                             "stripe.customers.retrieve", "GET customers",
                             "GET subscriptions"} \cup WriteOps
    /\ CustomersBefore(t) \in { << >>, << [id |-> 1, email |-> "a@example.com"] >> }
    /\ Len(orders) = Len(OkCalls(t, "POST orders"))
    /\ \E c \in SubscriptionConfigs :
         /\ Len(c) = Len(subscriptions)
         /\ \A i \in 1..Len(c) :
              /\ (i # wooSub[t] \/ OkCalls(t, "PUT subscriptions") = << >>)
                   => subscriptions[i] = c[i]
              /\ [subscriptions[i] EXCEPT !.status = c[i].status] = c[i]
    /\ event[t].type \in {"customer.subscription.updated", "customer.subscription.deleted"}
         => /\ Len(WritesOf(t)) <= 1
            /\ \A i \in 1..Len(WritesOf(t)) :
                 /\ WritesOf(t)[i].op = "PUT subscriptions"
                 /\ WritesOf(t)[i].target = wooSub[t]
                 /\ wooSub[t] # 0
            /\ orders = << >>
            /\ CustomersBefore(t) = customers
    /\ event[t].type = "invoice.paid"
         => /\ CallsOf(t, "POST customers") = << >>
            /\ CallsOf(t, "PUT orders") = << >>
            /\ CustomersBefore(t) = customers
    /\ IsCheckout(t)
         => /\ CallsOf(t, "PUT subscriptions") = << >>
            /\ subscriptions \in SubscriptionConfigs

C20_Witness ==
  \E t \in Tasks :
    /\ event[t].type = "customer.subscription.deleted"
    /\ LastCallIs(t, "PUT subscriptions")
    /\ Len(subscriptions) = 2
    /\ wooSub[t] = 2
    /\ subscriptions[1] = Sub(1, "active", "sub_9", 2)
    /\ subscriptions[2].status # "pending"
    /\ responses[t] = <<200>>

====
